---- MODULE Spec2Model ----
(***************************************************************************)
(* A model of src/main.py: the proposals aggregation service.              *)
(*                                                                         *)
(*   safe_request               the request executor with exponential      *)
(*                              backoff (lines 27-46)                      *)
(*   fetch_proposals_paginated  the off-chain fetcher (lines 48-110)       *)
(*   fetch_onchain_proposals    the on-chain fetcher (lines 112-215)       *)
(*   get_proposals              the endpoint GET /proposals/<space>        *)
(*                              (lines 220-256)                            *)
(*   r                          the Redis client, the only shared state    *)
(*                              (lines 14-21)                              *)
(*                                                                         *)
(* Conventions.  A Python string the code inspects or formats is a         *)
(* sequence of one-character strings.  An optional value (a Python value   *)
(* that may be None, a query argument that may be absent, a JSON value     *)
(* that may be null) is a set: {} for None, {v} for the value v.  Delays   *)
(* are in seconds and sleep times in half seconds, so that delay / 2 stays *)
(* an integer.                                                             *)
(***************************************************************************)
EXTENDS Integers, Sequences, FiniteSets, TLC

VARIABLES
    cache,      \* the Redis store: key -> [val, ex], the keys it holds its DOMAIN
    wk,         \* per worker: the position and locals of the request it handles
    served,     \* number of requests received so far
    offHist,    \* the last two completed off-chain fetch calls, oldest first
    lapsed,     \* the keys whose entry expired since the last off-chain fetch call
    xe,         \* an executor run on its own (executor specification)
    xlog,       \* what its last iteration did (executor specification)
    kin,        \* the two key inputs under comparison (key specification)
    kout,       \* the two keys computed from them (key specification)
    hub,        \* the off-chain API's proposals of the space (traversal specification)
    trail       \* the pages a paginating client got so far (traversal specification)

svcVars == <<cache, wk, served, offHist, lapsed>>

execVars == <<xe, xlog>>

keyVars == <<kin, kout>>

pageVars == <<hub, trail>>

vars == <<cache, wk, served, offHist, lapsed, xe, xlog, kin, kout, hub, trail>>

---------------------------------------------------------------------------
(* Bounds of the model.                                                    *)

\* number of requests the service receives in one behaviour
MaxRequests == 2

---------------------------------------------------------------------------
(* Optional values.                                                        *)

None == {}

Some(v) == {v}

TheValue(o) == CHOOSE v \in o : TRUE

---------------------------------------------------------------------------
(* Strings: formatting and parsing of integers, as Python's str and int.   *)

Digits == <<"0", "1", "2", "3", "4", "5", "6", "7", "8", "9">>

DigitChars == {Digits[k] : k \in 1..10}

DigitValue(c) == (CHOOSE k \in 1..10 : Digits[k] = c) - 1

RECURSIVE NatToStr(_)
NatToStr(n) ==
    IF n < 10 THEN <<Digits[n + 1]>>
    ELSE NatToStr(n \div 10) \o <<Digits[(n % 10) + 1]>>

\* str(n) for a Python int n
IntToStr(n) == IF n < 0 THEN <<"-">> \o NatToStr(0 - n) ELSE NatToStr(n)

\* the digits of an integer literal, its sign removed
LiteralBody(s) == IF s # <<>> /\ s[1] \in {"-", "+"} THEN Tail(s) ELSE s

\* whether int(s) succeeds: an optional sign, then one or more digits
\* (int also accepts surrounding blanks and '_' between digits; the strings
\* enumerated below hold none)
IsIntLiteral(s) ==
    /\ LiteralBody(s) # <<>>
    /\ \A k \in 1..Len(LiteralBody(s)) : LiteralBody(s)[k] \in DigitChars

RECURSIVE DigitsToNat(_)
DigitsToNat(s) ==
    IF s = <<>> THEN 0
    ELSE 10 * DigitsToNat(SubSeq(s, 1, Len(s) - 1)) + DigitValue(s[Len(s)])

\* int(s) for a string on which it succeeds
IntValue(s) ==
    IF s[1] = "-" THEN 0 - DigitsToNat(LiteralBody(s)) ELSE DigitsToNat(LiteralBody(s))

\* str(c) inside an f-string, for c an int or None
FormatCursor(c) == IF c = None THEN <<"N", "o", "n", "e">> ELSE IntToStr(TheValue(c))

---------------------------------------------------------------------------
(* Cache keys.                                                             *)

Dash == <<"-">>

ProposalsPrefix == <<"p", "r", "o", "p", "o", "s", "a", "l", "s">>

OnchainPrefix == <<"o", "n", "c", "h", "a", "i", "n">>

\* the default of the order_direction parameter, which get_proposals never overrides
DefaultOrderDirection == <<"d", "e", "s", "c">>

\* f"proposals-{space}-{order_direction}-{initial_created_gt}"
OffchainCacheKey(space, order_direction, initial_created_gt) ==
    ProposalsPrefix \o Dash \o space \o Dash \o order_direction \o Dash
        \o FormatCursor(initial_created_gt)

\* f"onchain-proposals-{onchain_slug}-{cursor}"
OnchainCacheKey(onchain_slug, cursor) ==
    OnchainPrefix \o Dash \o ProposalsPrefix \o Dash \o onchain_slug \o Dash
        \o FormatCursor(cursor)

---------------------------------------------------------------------------
(* The request executor, safe_request.                                     *)

\* retries=5, the number of attempts
Retries == 5

\* initial_delay=3, in seconds
InitialDelay == 3

\* the statuses that are retried
RetryStatuses == {429, 503}

\* the statuses the upstream answers with in this model
Statuses == {200, 429, 503, 404, 500}

\* NextDelay growing by the base delay instead of doubling
NextDelayLinear(delay) == delay + InitialDelay

\* delay *= 2
NextDelay(delay) == delay * 2

\* the greatest value of random.uniform(0, delay / 2), in half seconds
MaxJitter2(delay) == delay

\* the values of random.uniform(0, delay / 2) the model draws, in half seconds
Jitters2(delay) == {0, MaxJitter2(delay)}

\* sleep_time = delay + random.uniform(0, delay / 2), in half seconds
SleepTime2(delay, jitter2) == 2 * delay + jitter2

\* a parsed JSON body, by the shape the code tests; list and tok are the
\* members of the body the code reads (a list of records, an optional scalar)
Body(shape, list, tok) == [shape |-> shape, list |-> list, tok |-> tok]

\* Python None: what response.json() gives for the JSON text null, and what
\* safe_request returns after a failure
NullData == Body("null", <<>>, None)

\* ExhaustedOutcome with a return of None in place of the raise
ExhaustedOutcomeNone == "returned"

\* the outcome of a loop that ran out of attempts: the raise of line 46
ExhaustedOutcome == "raised"

\* RejectedOutcome with the loop going on to the next attempt
RejectedOutcomeRetry == "running"

\* the outcome of an attempt that got a status that is neither 200 nor retried
RejectedOutcome == "returned"

\* the outcome of an attempt that ended in requests.RequestException
TransportFailureOutcome == "returned"

\* the locals of safe_request at its entry; attempt counts the posts made
NewExecutor(retries, initial_delay) ==
    [retries |-> retries, initial_delay |-> initial_delay, attempt |-> 0,
     delay |-> initial_delay,
     out |-> IF retries <= 0 THEN ExhaustedOutcome ELSE "running", data |-> NullData]

\* the executor as both fetchers call it: with the default retries and delay
DefaultExecutor == NewExecutor(Retries, InitialDelay)

\* the outcome of an iteration that slept: the loop goes on, or is exhausted
AfterSleep(e) == IF e.attempt + 1 >= e.retries THEN ExhaustedOutcome ELSE "running"

\* one iteration of the loop of safe_request on the response resp (lines
\* 30-45), and the loop's exit when it was the last (line 46)
SafeRequestStep(e, resp) ==
    IF resp.kind = "exception"
    THEN [e EXCEPT !.attempt = @ + 1, !.out = TransportFailureOutcome, !.data = NullData]
    ELSE IF resp.status = 200
    THEN [e EXCEPT !.attempt = @ + 1, !.out = "returned", !.data = resp.body]
    ELSE IF resp.status \in RetryStatuses
    THEN [e EXCEPT !.attempt = @ + 1, !.delay = NextDelay(e.delay), !.out = AfterSleep(e)]
    ELSE [e EXCEPT !.attempt = @ + 1, !.out = RejectedOutcome, !.data = NullData]

\* for attempt in range(retries): whether the loop posts once more
CanPost(e) == e.out = "running" /\ e.attempt < e.retries

\* whether the iteration on resp sleeps (lines 35-38)
Sleeps(resp) == resp.kind = "http" /\ resp.status \in RetryStatuses

\* whether resp is the answer to the last attempt the loop allows and is a
\* retried status: every attempt of the call was then answered 429 or 503
LastAttemptRetried(e, resp) == Sleeps(resp) /\ e.attempt + 1 >= e.retries

\* the responses to one post: a transport failure (requests.RequestException),
\* a 200 with one of the bodies, or another status
Responses(bodies) ==
    {[kind |-> "exception", status |-> -1, body |-> NullData]}
        \cup {[kind |-> "http", status |-> 200, body |-> b] : b \in bodies}
        \cup {[kind |-> "http", status |-> s, body |-> NullData] : s \in Statuses \ {200}}

\* what a caller holds once safe_request returned: the data alone
Returned(e) == [DefaultExecutor EXCEPT !.out = e.out, !.data = e.data]

---------------------------------------------------------------------------
(* The upstream answers and the request arguments the model draws.         *)

Proposal(id, created) == [id |-> id, created |-> created]

\* pages of the off-chain API: data.proposals, in the order the API returns
OffchainPages ==
    {<<>>, <<Proposal("p1", 150), Proposal("p2", 200)>>, <<Proposal("p3", 300)>>}

\* bodies without the member the code reads: null; {}; an object without
\* 'data'; {"data": null}; {"data": {}}
MalformedBodies ==
    {NullData, Body("empty", <<>>, None), Body("no_data", <<>>, None),
     Body("data_null", <<>>, None), Body("data_empty", <<>>, None)}

\* {"data": {"proposals": [...]}}
OffchainBodies == MalformedBodies \cup {Body("full", p, None) : p \in OffchainPages}

\* {"data": {"organizationSlugToId": id}}, the id a string or null
OrgBodies ==
    MalformedBodies \cup {Body("full", <<>>, Some(<<"o", "1">>)), Body("full", <<>>, None)}

\* a provider-issued cursor: an opaque string
ProviderCursor == <<"x", "9">>

\* {"data": {"proposals": {"nodes": [...], "pageInfo": {"lastCursor": c}}}},
\* and {"data": {"proposals": null}}
PropBodies ==
    MalformedBodies
        \cup {Body("member_null", <<>>, None), Body("full", <<>>, None),
              Body("full", <<Proposal("n1", 100)>>, Some(ProviderCursor))}

Spaces == {<<"a">>}

\* the proposals a space of the off-chain API may hold
HubProposals == {Proposal("p1", 150), Proposal("p2", 200), Proposal("p3", 300)}

\* an off-chain API that holds no space
NoHub == [space |-> <<>>, proposals |-> {}, first |-> 0]

\* the variables of the off-chain query (lines 94-97)
OffchainVariables(space, order_direction, initial_created_gt) ==
    [space |-> space, created_gt |-> initial_created_gt,
     orderDirection |-> order_direction]

\* the proposals ps ordered by created as orderDirection asks
RECURSIVE InOrder(_, _)
InOrder(ps, orderDirection) ==
    IF ps = {} THEN <<>>
    ELSE LET p == CHOOSE x \in ps : \A y \in ps :
                      IF orderDirection = DefaultOrderDirection
                      THEN y.created <= x.created
                      ELSE y.created >= x.created
         IN  <<p>> \o InOrder(ps \ {p}, orderDirection)

\* what the off-chain API h answers to the query with variables v: the
\* proposals of the space created after created_gt, in the order asked for,
\* at most h.first of them (the query of lines 60-93 sets no page size)
HubPage(h, v) ==
    LET matching == {p \in h.proposals :
                        /\ v.space = h.space
                        /\ v.created_gt = None \/ p.created > TheValue(v.created_gt)}
        ordered == InOrder(matching, v.orderDirection)
    IN  SubSeq(ordered, 1, IF Len(ordered) < h.first THEN Len(ordered) ELSE h.first)

\* the 200 with that page as data.proposals
HubResponse(h, v) ==
    [kind |-> "http", status |-> 200, body |-> Body("full", HubPage(h, v), None)]

\* values of a cursor query argument: absent, an integer, a provider-issued cursor
CursorArgs == {None, Some(<<"5">>), Some(ProviderCursor)}

\* values of the onchain query argument: absent, empty, or a slug
SlugArgs == {None, Some(<<>>), Some(<<"a", "-">>)}

TrueStr == <<"t", "r", "u", "e">>

\* values of the refresh query argument
RefreshArgs == {None, Some(TrueStr), Some(<<"1">>)}

Requests ==
    [space : Spaces, offchain_cursor : CursorArgs, onchain_cursor : CursorArgs,
     onchain : SlugArgs, refresh : RefreshArgs]

WorkerIds == {1}

---------------------------------------------------------------------------
(* The cache store.                                                        *)

\* ex=36000, in seconds
CacheTtl == 36000

\* a Python tuple and a Python list of two items
PyTuple(a, b) == [kind |-> "tuple", items |-> <<a, b>>]

PyList(a, b) == [kind |-> "list", items |-> <<a, b>>]

\* json.dumps of a tuple or list of two items: the JSON array [a, b]
JsonDumps(v) == <<v.items[1], v.items[2]>>

\* json.loads of a JSON array of two items: a Python list
JsonLoads(j) == PyList(j[1], j[2])

\* CacheGet finding no entry
CacheGetNone(c, key) == None

\* r.get(key): the stored string, or None
CacheGet(c, key) == IF key \in DOMAIN c THEN Some(c[key].val) ELSE None

\* CacheSet writing the second item alone where the key holds an entry: a
\* write of the pair by parts
CacheSetByParts(c, key, value, ttl) ==
    [k \in DOMAIN c \cup {key} |->
        IF k # key THEN c[k]
        ELSE IF key \in DOMAIN c
        THEN [val |-> <<c[key].val[1], value[2]>>, ex |-> ttl]
        ELSE [val |-> value, ex |-> ttl]]

\* r.set(key, value, ex=ttl): one Redis command, the whole value at once
CacheSet(c, key, value, ttl) ==
    [k \in DOMAIN c \cup {key} |-> IF k = key THEN [val |-> value, ex |-> ttl] ELSE c[k]]

---------------------------------------------------------------------------
(* The fetchers' tests of a body.                                          *)

\* data and 'data' in data and member in data['data']: "yes", "no", or
\* "error" where the test itself raises (membership in None is a TypeError)
HasMember(data) ==
    CASE data.shape \in {"null", "empty", "no_data", "data_empty"} -> "no"
      [] data.shape = "data_null" -> "error"
      [] OTHER -> "yes"

\* LastCursor reading the first element of the page instead of the last
LastCursorOfFirst(proposals) ==
    IF proposals # <<>> THEN Some(proposals[1].created) ELSE None

\* last_cursor after lines 103-104: proposals[-1]['created'] of a non-empty list
LastCursor(proposals) ==
    IF proposals # <<>> THEN Some(proposals[Len(proposals)].created) ELSE None

---------------------------------------------------------------------------
(* The endpoint get_proposals and the two fetchers.                        *)

\* no response yet
NoResponse ==
    [status |-> 0, error |-> "", offchain |-> <<>>, offchain_cursor |-> None,
     hasOnchain |-> FALSE, onchain |-> <<>>, onchain_cursor |-> None]

\* a worker that handles no request
IdleWorker ==
    [pc |-> "idle",
     req |-> [space |-> <<>>, offchain_cursor |-> None, onchain_cursor |-> None,
              onchain |-> None],
     offchain_cursor |-> None, onchain_cursor |-> None, refresh |-> FALSE,
     ex |-> DefaultExecutor,
     offUpstream |-> FALSE, orgUpstream |-> FALSE, propUpstream |-> FALSE,
     gets |-> 0, offSets |-> 0, onSets |-> 0, exhausted |-> "",
     offRet |-> None, onRet |-> None, offFrom |-> "", onFrom |-> "",
     orgResult |-> None, propQuery |-> None, keyLapsed |-> FALSE,
     resp |-> NoResponse]

\* whether int(s) if s is not None else None succeeds (lines 230, 235)
CursorIsValid(arg) == arg = None \/ IsIntLiteral(TheValue(arg))

\* int(s) if s is not None else None
ParseCursor(arg) == IF arg = None THEN None ELSE Some(IntValue(TheValue(arg)))

\* whether the on-chain cursor argument is accepted (lines 234-237)
OnchainCursorIsValid(arg) == CursorIsValid(arg)

\* the on-chain cursor handed to fetch_onchain_proposals (lines 235, 251)
OnchainCursorValue(arg) == ParseCursor(arg)

\* jsonify({"error": ...}), 400
BadRequest(message) == [NoResponse EXCEPT !.status = 400, !.error = message]

\* an exception that leaves get_proposals: the framework answers 500
ServerError(exception) == [NoResponse EXCEPT !.status = 500, !.error = exception]

\* WantsOnchain with the test of line 250 taken as onchain_slug is not None
WantsOnchainIfPresent(w) == w.req.onchain # None

\* if onchain_slug: (line 250)
WantsOnchain(w) == w.req.onchain # None /\ TheValue(w.req.onchain) # <<>>

OffKey(w) == OffchainCacheKey(w.req.space, DefaultOrderDirection, w.offchain_cursor)

OnKey(w) == OnchainCacheKey(TheValue(w.req.onchain), w.onchain_cursor)

\* the record of a completed off-chain fetch call: its arguments, whether it
\* returned and what, whether it posted to the upstream, whether its result
\* is what the cache held or was stored, and whether the entry under its key
\* had expired since the call before
HistEntry(w, out, ret, stored) ==
    [space |-> w.req.space, cursor |-> w.offchain_cursor, refresh |-> w.refresh,
     out |-> out, ret |-> ret, upstream |-> w.offUpstream, stored |-> stored,
     lapsed |-> w.keyLapsed]

PushHist(h, entry) == IF Len(h) < 2 THEN Append(h, entry) ELSE <<h[2], entry>>

\* lines 241-248 and 256: the response without on-chain data
OffchainResponse(ret) ==
    [NoResponse EXCEPT !.status = 200, !.offchain = ret.items[1],
                       !.offchain_cursor = ret.items[2]]

\* lines 252-256: the response with the on-chain page and cursor added
WithOnchain(resp, ret) ==
    [resp EXCEPT !.hasOnchain = TRUE, !.onchain = ret.items[1],
                 !.onchain_cursor = ret.items[2]]

\* the worker after fetch_proposals_paginated returned ret (lines 239-250)
AfterOffchain(w, ret, from) ==
    [w EXCEPT !.offRet = Some(ret), !.offFrom = from, !.ex = DefaultExecutor,
              !.resp = IF WantsOnchain(w) THEN @ ELSE OffchainResponse(ret),
              !.pc = IF WantsOnchain(w) THEN "on_lookup" ELSE "done"]

\* the worker after fetch_onchain_proposals returned ret (lines 251-256)
AfterOnchain(w, ret, from) ==
    [w EXCEPT !.onRet = Some(ret), !.onFrom = from, !.ex = DefaultExecutor,
              !.resp = WithOnchain(OffchainResponse(TheValue(w.offRet)), ret),
              !.pc = "done"]

\* the worker after an exception left the endpoint
Failed(w, exception) == [w EXCEPT !.pc = "done", !.resp = ServerError(exception)]

\* what the endpoint does with an exhausted executor: the exception of line
\* 46 is caught nowhere
Exhausted(w) == Failed(w, "RetriesExhausted")

\* OnBadOffchainCursor with the ValueError ignored and the cursor left None
OnBadOffchainCursorIgnored(w) == [w EXCEPT !.pc = "off_lookup"]

\* lines 231-232: the answer to an off-chain cursor that is no integer
OnBadOffchainCursor(w) == [w EXCEPT !.pc = "done", !.resp = BadRequest("offchain")]

\* lines 236-237: the answer to an on-chain cursor that is no integer
OnBadOnchainCursor(w) == [w EXCEPT !.pc = "done", !.resp = BadRequest("onchain")]

\* lines 223-237: the worker once the arguments of request are read and
\* validated
Accept(request) ==
    LET w == [IdleWorker EXCEPT
                !.req = [space |-> request.space,
                         offchain_cursor |-> request.offchain_cursor,
                         onchain_cursor |-> request.onchain_cursor,
                         onchain |-> request.onchain],
                !.refresh = (request.refresh = Some(TrueStr))]
    IN  IF ~CursorIsValid(request.offchain_cursor)
        THEN OnBadOffchainCursor(w)
        ELSE IF ~OnchainCursorIsValid(request.onchain_cursor)
        THEN OnBadOnchainCursor(w)
        ELSE [w EXCEPT !.pc = "off_lookup",
                       !.offchain_cursor = ParseCursor(request.offchain_cursor),
                       !.onchain_cursor = OnchainCursorValue(request.onchain_cursor)]

\* lines 223-237: read and validate the arguments
Receive(i, request) ==
    /\ wk[i].pc \in {"idle", "done"}
    /\ served < MaxRequests
    /\ served' = served + 1
    /\ wk' = [wk EXCEPT ![i] = Accept(request)]
    /\ UNCHANGED <<cache, offHist, lapsed, execVars, keyVars, pageVars>>

\* CacheHit with the cached value never taken
CacheHitNever(refresh, cached_data) == FALSE

\* CacheHit with the test of the refresh flag inverted
CacheHitInverted(refresh, cached_data) == refresh /\ cached_data # None

\* whether a fetcher returns the cached value (lines 53-56, 119-122)
CacheHit(refresh, cached_data) == ~refresh /\ cached_data # None

\* lines 50-56: the cache lookup of fetch_proposals_paginated
OffLookup(i) ==
    LET w == [wk[i] EXCEPT !.keyLapsed = OffKey(wk[i]) \in lapsed]
        cached_data == CacheGet(cache, OffKey(w))
    IN  /\ w.pc = "off_lookup"
        /\ IF CacheHit(w.refresh, cached_data)
           THEN /\ wk' = [wk EXCEPT ![i] =
                     AfterOffchain([w EXCEPT !.gets = @ + 1],
                                   JsonLoads(TheValue(cached_data)), "cache")]
                /\ offHist' = PushHist(offHist,
                     HistEntry(w, "returned",
                               Some(JsonLoads(TheValue(cached_data)).items), TRUE))
                /\ lapsed' = {}
           ELSE /\ wk' = [wk EXCEPT ![i] =
                     [w EXCEPT !.gets = IF w.refresh THEN @ ELSE @ + 1,
                               !.ex = DefaultExecutor, !.pc = "off_request"]]
                /\ UNCHANGED <<offHist, lapsed>>
        /\ UNCHANGED <<cache, served, execVars, keyVars, pageVars>>

\* line 99: one attempt of safe_request on the off-chain query
OffRequest(i, resp) ==
    LET w == wk[i]
        e == SafeRequestStep(w.ex, resp)
        w1 == [w EXCEPT !.ex = e, !.offUpstream = TRUE,
                        !.exhausted = IF LastAttemptRetried(w.ex, resp)
                                      THEN "offchain" ELSE @]
    IN  /\ w.pc = "off_request"
        /\ CanPost(w.ex)
        /\ IF e.out = "raised"
           THEN /\ wk' = [wk EXCEPT ![i] = Exhausted(w1)]
                /\ offHist' = PushHist(offHist, HistEntry(w1, "raised", None, FALSE))
                /\ lapsed' = {}
           ELSE /\ wk' = [wk EXCEPT ![i] =
                     IF e.out = "returned"
                     THEN [w1 EXCEPT !.ex = Returned(e), !.pc = "off_finish"]
                     ELSE w1]
                /\ UNCHANGED <<offHist, lapsed>>
        /\ UNCHANGED <<cache, served, execVars, keyVars, pageVars>>

\* OffchainStores with the cache write outside the test of line 101
OffchainStoresAlways(data) == TRUE

\* OffchainStores with the cache write left out
OffchainStoresNever(data) == FALSE

\* OffchainStores with the cache write moved under the test of line 103
OffchainStoresNonEmpty(data) == HasMember(data) = "yes" /\ data.list # <<>>

\* whether fetch_proposals_paginated stores what it got (the test of line 101)
OffchainStores(data) == HasMember(data) = "yes"

\* lines 100-110: the page and cursor from the body, the cache write, the return
OffFinish(i) ==
    LET w == wk[i]
        data == w.ex.data
        proposals == IF HasMember(data) = "yes" THEN data.list ELSE <<>>
        last_cursor == IF HasMember(data) = "yes" THEN LastCursor(proposals) ELSE None
        ret == PyTuple(proposals, last_cursor)
    IN  /\ w.pc = "off_finish"
        /\ IF HasMember(data) = "error"
           THEN /\ wk' = [wk EXCEPT ![i] = Failed(w, "TypeError")]
                /\ offHist' = PushHist(offHist, HistEntry(w, "raised", None, FALSE))
                /\ UNCHANGED cache
           ELSE /\ cache' = IF OffchainStores(data)
                            THEN CacheSet(cache, OffKey(w), JsonDumps(ret), CacheTtl)
                            ELSE cache
                /\ wk' = [wk EXCEPT ![i] =
                     AfterOffchain([w EXCEPT !.offSets = IF OffchainStores(data)
                                                         THEN @ + 1 ELSE @],
                                   ret, "upstream")]
                /\ offHist' = PushHist(offHist,
                     HistEntry(w, "returned", Some(ret.items), OffchainStores(data)))
        /\ lapsed' = {}
        /\ UNCHANGED <<served, execVars, keyVars, pageVars>>

\* lines 117-122: the cache lookup of fetch_onchain_proposals
OnLookup(i) ==
    LET w == wk[i]
        cached_data == CacheGet(cache, OnKey(w))
    IN  /\ w.pc = "on_lookup"
        /\ wk' = [wk EXCEPT ![i] =
             IF CacheHit(w.refresh, cached_data)
             THEN AfterOnchain([w EXCEPT !.gets = @ + 1],
                               JsonLoads(TheValue(cached_data)), "cache")
             ELSE [w EXCEPT !.gets = IF w.refresh THEN @ ELSE @ + 1,
                            !.ex = DefaultExecutor, !.pc = "on_org_request"]]
        /\ UNCHANGED <<cache, served, offHist, lapsed, execVars, keyVars, pageVars>>

\* OrgResolved with the test of line 134 left out
OrgResolvedAlways(data) == HasMember(data) # "error"

\* the test of line 134 passes: the lookup response holds organizationSlugToId
OrgResolved(data) == HasMember(data) = "yes"

\* lines 196-203: the variables of the proposals query
ProposalsInput(organization_id, cursor) ==
    [organizationId |-> organization_id, afterCursor |-> cursor]

\* lines 132-137 and 196-203: one attempt of safe_request on the organization
\* lookup, and on its return the test of the response
OnOrgRequest(i, resp) ==
    LET w == wk[i]
        e == SafeRequestStep(w.ex, resp)
        w1 == [w EXCEPT !.ex = e, !.orgUpstream = TRUE,
                        !.exhausted = IF LastAttemptRetried(w.ex, resp)
                                      THEN "organization" ELSE @]
        w2 == [w1 EXCEPT !.orgResult = Some(e.data)]
    IN  /\ w.pc = "on_org_request"
        /\ CanPost(w.ex)
        /\ wk' = [wk EXCEPT ![i] =
             CASE e.out = "raised" -> Exhausted(w1)
               [] e.out = "running" -> w1
               [] e.out = "returned" /\ HasMember(e.data) = "error" ->
                    Failed(w2, "TypeError")
               [] e.out = "returned" /\ HasMember(e.data) # "error" /\ ~OrgResolved(e.data) ->
                    Failed(w2, "OrganizationResolution")
               [] OTHER ->
                    [w2 EXCEPT !.propQuery =
                                   Some(ProposalsInput(e.data.tok, w.onchain_cursor)),
                               !.ex = DefaultExecutor, !.pc = "on_prop_request"]]
        /\ UNCHANGED <<cache, served, offHist, lapsed, execVars, keyVars, pageVars>>

\* line 204: one attempt of safe_request on the proposals query
OnPropRequest(i, resp) ==
    LET w == wk[i]
        e == SafeRequestStep(w.ex, resp)
        w1 == [w EXCEPT !.ex = e, !.propUpstream = TRUE,
                        !.exhausted = IF LastAttemptRetried(w.ex, resp)
                                      THEN "proposals" ELSE @]
    IN  /\ w.pc = "on_prop_request"
        /\ CanPost(w.ex)
        /\ wk' = [wk EXCEPT ![i] =
             CASE e.out = "raised" -> Exhausted(w1)
               [] e.out = "returned" -> [w1 EXCEPT !.ex = Returned(e), !.pc = "on_finish"]
               [] OTHER -> w1]
        /\ UNCHANGED <<cache, served, offHist, lapsed, execVars, keyVars, pageVars>>

\* ProposalsFetched with the test of line 206 left out
ProposalsFetchedAlways(data) == TRUE

\* the test of line 206 passes: the page response holds data.proposals
ProposalsFetched(data) == HasMember(data) = "yes"

\* lines 206-215 and 252-256: the test of the page response, the page and
\* cursor, the cache write, the return and the response
OnFinish(i) ==
    LET w == wk[i]
        data == w.ex.data
        ret == PyTuple(data.list, data.tok)
    IN  /\ w.pc = "on_finish"
        /\ IF HasMember(data) = "error" \/ data.shape = "member_null"
           THEN /\ wk' = [wk EXCEPT ![i] = Failed(w, "TypeError")]
                /\ UNCHANGED cache
           ELSE IF ~ProposalsFetched(data)
           THEN /\ wk' = [wk EXCEPT ![i] = Failed(w, "ProposalFetch")]
                /\ UNCHANGED cache
           ELSE /\ cache' = CacheSet(cache, OnKey(w), JsonDumps(ret), CacheTtl)
                /\ wk' = [wk EXCEPT ![i] =
                     AfterOnchain([w EXCEPT !.onSets = @ + 1], ret, "upstream")]
        /\ UNCHANGED <<served, offHist, lapsed, execVars, keyVars, pageVars>>

\* Redis drops the entry under key, ex seconds after it was written
Expire(key) ==
    /\ key \in DOMAIN cache
    /\ cache' = [k \in DOMAIN cache \ {key} |-> cache[k]]
    /\ lapsed' = lapsed \cup {key}
    /\ UNCHANGED <<wk, served, offHist, execVars, keyVars, pageVars>>

---------------------------------------------------------------------------
(* The service: requests handled one at a time against the shared cache.   *)

Init ==
    /\ cache = <<>>
    /\ wk = [i \in WorkerIds |-> IdleWorker]
    /\ served = 0
    /\ offHist = <<>>
    /\ lapsed = {}
    /\ xe = DefaultExecutor
    /\ xlog = <<>>
    /\ kin = <<>>
    /\ kout = <<>>
    /\ hub = NoHub
    /\ trail = <<>>

Next ==
    \/ \E i \in WorkerIds, request \in Requests : Receive(i, request)
    \/ \E i \in WorkerIds : OffLookup(i)
    \/ \E i \in WorkerIds, resp \in Responses(OffchainBodies) : OffRequest(i, resp)
    \/ \E i \in WorkerIds : OffFinish(i)
    \/ \E i \in WorkerIds : OnLookup(i)
    \/ \E i \in WorkerIds, resp \in Responses(OrgBodies) : OnOrgRequest(i, resp)
    \/ \E i \in WorkerIds, resp \in Responses(PropBodies) : OnPropRequest(i, resp)
    \/ \E i \in WorkerIds : OnFinish(i)
    \/ \E key \in DOMAIN cache : Expire(key)

Spec == Init /\ [][Next]_vars

---------------------------------------------------------------------------
(* The executor on its own: one call of safe_request, its responses and    *)
(* sleeps recorded.                                                        *)

\* values of the retries and initial_delay parameters: the defaults, which
\* both fetchers use, and smaller ones
ExecRetries == {1, 2, Retries}

ExecDelays == {1, InitialDelay}

\* what one iteration did: the response, the delay it slept on and the sleep
\* (0 when it did not sleep)
LogEntry(e, resp, jitter2) ==
    [kind |-> resp.kind, status |-> resp.status, body |-> resp.body,
     slept |-> Sleeps(resp), delay |-> e.delay,
     sleep2 |-> IF Sleeps(resp) THEN SleepTime2(e.delay, jitter2) ELSE 0]

ExecPost(resp, jitter2) ==
    /\ CanPost(xe)
    /\ xe' = SafeRequestStep(xe, resp)
    /\ xlog' = Append(xlog, LogEntry(xe, resp, jitter2))
    /\ UNCHANGED <<svcVars, keyVars, pageVars>>

InitExec ==
    /\ cache = <<>>
    /\ wk = [i \in WorkerIds |-> IdleWorker]
    /\ served = 0
    /\ offHist = <<>>
    /\ lapsed = {}
    /\ xe \in {NewExecutor(r, d) : r \in ExecRetries, d \in ExecDelays}
    /\ xlog = <<>>
    /\ kin = <<>>
    /\ kout = <<>>
    /\ hub = NoHub
    /\ trail = <<>>

NextExec ==
    \E resp \in Responses(OffchainBodies) :
        \E jitter2 \in Jitters2(xe.delay) : ExecPost(resp, jitter2)

SpecExec == InitExec /\ [][NextExec]_vars

---------------------------------------------------------------------------
(* The cache keys on their own: the keys of two fetches.                   *)

OrderDirections == {<<"a", "s", "c">>, DefaultOrderDirection}

KeyScopes == {<<"a">>, <<"a", "-">>, <<"a", "-", "5">>}

\* the cursors the endpoint hands to the fetchers: None or an int
KeyCursors == {None, Some(0), Some(5), Some(-5)}

\* the inputs of a key: the on-chain key has no ordering direction
KeyInputs ==
    [source : {"offchain"}, scope : KeyScopes, direction : OrderDirections,
     cursor : KeyCursors]
        \cup [source : {"onchain"}, scope : KeyScopes, direction : {<<>>},
              cursor : KeyCursors]

CacheKeyOf(in) ==
    IF in.source = "offchain"
    THEN OffchainCacheKey(in.scope, in.direction, in.cursor)
    ELSE OnchainCacheKey(in.scope, in.cursor)

ComputeKeys ==
    /\ kout = <<>>
    /\ kout' = <<CacheKeyOf(kin[1]), CacheKeyOf(kin[2])>>
    /\ UNCHANGED <<svcVars, execVars, kin, pageVars>>

InitKey ==
    /\ cache = <<>>
    /\ wk = [i \in WorkerIds |-> IdleWorker]
    /\ served = 0
    /\ offHist = <<>>
    /\ lapsed = {}
    /\ xe = DefaultExecutor
    /\ xlog = <<>>
    /\ kin \in KeyInputs \X KeyInputs
    /\ kout = <<>>
    /\ hub = NoHub
    /\ trail = <<>>

NextKey == ComputeKeys

SpecKey == InitKey /\ [][NextKey]_vars

---------------------------------------------------------------------------
(* A traversal: one client pages through a space of the off-chain API,     *)
(* feeding each offchain_cursor it gets back as the next offchain_cursor.  *)

\* the page sizes of the off-chain API
HubFirsts == {1, 2, 3}

Hubs == [space : Spaces, proposals : SUBSET HubProposals, first : HubFirsts]

\* GET /proposals/<space>, with offchain_cursor=<cursor> when cursor holds the
\* integer of the response before
PageRequest(space, cursor) ==
    [space |-> space,
     offchain_cursor |-> IF cursor = None THEN None ELSE Some(IntToStr(TheValue(cursor))),
     onchain_cursor |-> None, onchain |-> None, refresh |-> None]

\* what the client keeps of a response: the cursor it had sent, the page and
\* the cursor it got
TrailEntry(w) ==
    [sent |-> w.offchain_cursor, status |-> w.resp.status,
     page |-> w.resp.offchain, cursor |-> w.resp.offchain_cursor]

\* the first request of the traversal: no cursor
ClientStart(i) ==
    /\ wk[i].pc = "idle"
    /\ trail = <<>>
    /\ wk' = [wk EXCEPT ![i] = Accept(PageRequest(hub.space, None))]
    /\ UNCHANGED <<cache, served, offHist, lapsed, execVars, keyVars, hub, trail>>

\* the client takes a response that holds a cursor and asks for the page
\* after it
ClientFollow(i) ==
    /\ wk[i].pc = "done"
    /\ wk[i].resp.status = 200
    /\ wk[i].resp.offchain_cursor # None
    /\ trail' = Append(trail, TrailEntry(wk[i]))
    /\ wk' = [wk EXCEPT ![i] =
             Accept(PageRequest(hub.space, wk[i].resp.offchain_cursor))]
    /\ UNCHANGED <<cache, served, offHist, lapsed, execVars, keyVars, hub>>

\* the client takes a response without a cursor, or an error, and stops
ClientEnd(i) ==
    /\ wk[i].pc = "done"
    /\ wk[i].resp.status # 200 \/ wk[i].resp.offchain_cursor = None
    /\ trail' = Append(trail, TrailEntry(wk[i]))
    /\ wk' = [wk EXCEPT ![i] = [IdleWorker EXCEPT !.pc = "ended"]]
    /\ UNCHANGED <<cache, served, offHist, lapsed, execVars, keyVars, hub>>

\* line 99 against the off-chain API hub
HubRequest(i) ==
    OffRequest(i, HubResponse(hub,
        OffchainVariables(wk[i].req.space, DefaultOrderDirection, wk[i].offchain_cursor)))

InitPage ==
    /\ cache = <<>>
    /\ wk = [i \in WorkerIds |-> IdleWorker]
    /\ served = 0
    /\ offHist = <<>>
    /\ lapsed = {}
    /\ xe = DefaultExecutor
    /\ xlog = <<>>
    /\ kin = <<>>
    /\ kout = <<>>
    /\ hub \in Hubs
    /\ trail = <<>>

NextPage ==
    \/ \E i \in WorkerIds : ClientStart(i)
    \/ \E i \in WorkerIds : OffLookup(i)
    \/ \E i \in WorkerIds : HubRequest(i)
    \/ \E i \in WorkerIds : OffFinish(i)
    \/ \E i \in WorkerIds : ClientFollow(i)
    \/ \E i \in WorkerIds : ClientEnd(i)

\* the server answers every request and the client goes on until it stops
SpecPage == InitPage /\ [][NextPage]_vars /\ WF_vars(NextPage)

---------------------------------------------------------------------------
(* Concurrent requests: two workers of the server handle one request each  *)
(* against the shared cache, their Redis commands and posts interleaved.   *)

ConcWorkers == {1, 2}

\* requests for the same page of the same space, with or without the same
\* on-chain organization: one off-chain and one on-chain cache key
ConcRequests ==
    [space : Spaces, offchain_cursor : {None}, onchain_cursor : {None},
     onchain : {None, Some(<<"a", "-">>)}, refresh : {None}]

InitConc ==
    /\ cache = <<>>
    /\ wk = [i \in ConcWorkers |-> IdleWorker]
    /\ served = 0
    /\ offHist = <<>>
    /\ lapsed = {}
    /\ xe = DefaultExecutor
    /\ xlog = <<>>
    /\ kin = <<>>
    /\ kout = <<>>
    /\ hub = NoHub
    /\ trail = <<>>

NextConc ==
    \/ \E i \in ConcWorkers, request \in ConcRequests : Receive(i, request)
    \/ \E i \in ConcWorkers : OffLookup(i)
    \/ \E i \in ConcWorkers, resp \in Responses(OffchainBodies) : OffRequest(i, resp)
    \/ \E i \in ConcWorkers : OffFinish(i)
    \/ \E i \in ConcWorkers : OnLookup(i)
    \/ \E i \in ConcWorkers, resp \in Responses(OrgBodies) : OnOrgRequest(i, resp)
    \/ \E i \in ConcWorkers, resp \in Responses(PropBodies) : OnPropRequest(i, resp)
    \/ \E i \in ConcWorkers : OnFinish(i)
    \/ \E key \in DOMAIN cache : Expire(key)

SpecConc == InitConc /\ [][NextConc]_vars

---------------------------------------------------------------------------
(* Properties of the service.                                              *)

\* two completed off-chain fetch calls, one right after the other, with the
\* same space, direction and cursor and refresh=false
ConsecutiveSameKey ==
    /\ Len(offHist) = 2
    /\ offHist[1].space = offHist[2].space
    /\ offHist[1].cursor = offHist[2].cursor
    /\ ~offHist[1].refresh
    /\ ~offHist[2].refresh

\* C1 as stated: of two consecutive off-chain fetch calls with identical
\* (space, direction, cursor) and refresh=false, the second posts nothing to
\* the upstream and returns the (page, nextCursor) the first returned,
\* whatever the upstream answered to the first.
C1_SecondCallAlwaysCached ==
    ConsecutiveSameKey =>
        /\ ~offHist[2].upstream
        /\ offHist[2].out = "returned"
        /\ offHist[2].ret = offHist[1].ret

\* C1 amended: of two consecutive off-chain fetch calls with identical
\* (space, direction, cursor) and refresh=false, if the first returned a pair
\* that it read from the cache or stored in it, and the entry did not expire
\* in between, the second posts nothing to the upstream and returns the
\* (page, nextCursor) the first returned.
C1_SecondCallCachedIfStored ==
    (/\ ConsecutiveSameKey
     /\ offHist[1].out = "returned"
     /\ offHist[1].stored
     /\ ~offHist[2].lapsed) =>
        /\ ~offHist[2].upstream
        /\ offHist[2].out = "returned"
        /\ offHist[2].ret = offHist[1].ret

\* a first call that got a non-empty page from the upstream, and a second
\* call with the same key served without the upstream
C1_Witness ==
    /\ ConsecutiveSameKey
    /\ offHist[1].out = "returned"
    /\ offHist[1].stored
    /\ offHist[1].upstream
    /\ offHist[1].ret # None
    /\ Len(TheValue(offHist[1].ret)[1]) = 2
    /\ ~offHist[2].lapsed
    /\ ~offHist[2].upstream

\* the step of worker i in which its off-chain fetch call returns
OffchainReturns(i) == wk[i].offRet = None /\ wk'[i].offRet # None

CursorMatchesPage(pair) ==
    IF pair[1] = <<>>
    THEN pair[2] = None
    ELSE pair[2] = Some(pair[1][Len(pair[1])].created)

\* the keys of the off-chain fetcher: they start with "proposals-"
IsOffchainKey(key) ==
    /\ Len(key) >= Len(ProposalsPrefix \o Dash)
    /\ SubSeq(key, 1, Len(ProposalsPrefix \o Dash)) = ProposalsPrefix \o Dash

\* C3: every (page, nextCursor) an off-chain fetch call returned, every
\* off-chain entry of the cache and every 200 response has the created of the
\* page's last element as its cursor, and no cursor when the page is empty.
C3_CursorIsLastCreated ==
    /\ \A i \in WorkerIds :
         /\ wk[i].offRet # None => CursorMatchesPage(TheValue(wk[i].offRet).items)
         /\ wk[i].resp.status = 200 =>
                CursorMatchesPage(<<wk[i].resp.offchain, wk[i].resp.offchain_cursor>>)
    /\ \A key \in DOMAIN cache :
         IsOffchainKey(key) => CursorMatchesPage(cache[key].val)
    /\ \A n \in 1..Len(offHist) :
         offHist[n].ret # None => CursorMatchesPage(TheValue(offHist[n].ret))

\* a page of two proposals, returned from the cache that holds it
C3_Witness ==
    \E i \in WorkerIds :
        /\ wk[i].offFrom = "cache"
        /\ Len(TheValue(wk[i].offRet).items[1]) = 2
        /\ TheValue(wk[i].offRet).items[2] = Some(200)
        /\ OffKey(wk[i]) \in DOMAIN cache
        /\ cache[OffKey(wk[i])].val = TheValue(wk[i].offRet).items

\* C6: a fetch whose every attempt was answered 429 or 503 ends the request
\* with a 500 that carries the exhausted retries; the fetch returns no page,
\* the response is no 200 and holds no page, and the fetch writes no cache
\* entry.
C6_ExhaustedIsServerError ==
    \A i \in WorkerIds :
        wk[i].exhausted # "" =>
            /\ wk[i].pc = "done"
            /\ wk[i].resp = ServerError("RetriesExhausted")
            /\ wk[i].resp.status = 500
            /\ wk[i].resp.offchain = <<>> /\ ~wk[i].resp.hasOnchain
            /\ wk[i].onRet = None /\ wk[i].onSets = 0
            /\ wk[i].exhausted = "offchain" => wk[i].offRet = None /\ wk[i].offSets = 0

\* the proposals query exhausted its attempts after the off-chain fetch of
\* the same request had stored its page
C6_Witness ==
    \E i \in WorkerIds :
        /\ wk[i].exhausted = "proposals"
        /\ wk[i].ex.attempt = 5
        /\ wk[i].offSets = 1
        /\ wk[i].resp.status = 500

\* C7: a request whose offchain_cursor is supplied and is no integer is
\* answered 400 with an error body; it posts nothing to either upstream and
\* neither reads nor writes the cache.
C7_BadOffchainCursorIs400 ==
    \A i \in WorkerIds :
        (/\ wk[i].pc # "idle"
         /\ wk[i].req.offchain_cursor # None
         /\ ~IsIntLiteral(TheValue(wk[i].req.offchain_cursor))) =>
            /\ wk[i].pc = "done"
            /\ wk[i].resp.status = 400
            /\ wk[i].resp.error # ""
            /\ ~wk[i].offUpstream /\ ~wk[i].orgUpstream /\ ~wk[i].propUpstream
            /\ wk[i].gets = 0 /\ wk[i].offSets = 0 /\ wk[i].onSets = 0
            /\ wk[i].offRet = None /\ wk[i].onRet = None

\* the second request, with an on-chain slug and a cache that holds entries,
\* rejected for its off-chain cursor
C7_Witness ==
    \E i \in WorkerIds :
        /\ served = 2
        /\ cache # <<>>
        /\ wk[i].req.offchain_cursor = Some(ProviderCursor)
        /\ WantsOnchain(wk[i])
        /\ wk[i].resp.status = 400

\* C8: the on-chain cursor is an opaque string: whatever string onchain_cursor
\* holds, a request with an on-chain slug is not rejected as a client error,
\* and the proposals query carries that string as its afterCursor.
C8_OnchainCursorPassedThrough ==
    \A i \in WorkerIds :
        (/\ wk[i].pc = "done"
         /\ WantsOnchain(wk[i])
         /\ wk[i].req.onchain_cursor # None
         /\ CursorIsValid(wk[i].req.offchain_cursor)) =>
            /\ wk[i].resp.status # 400
            /\ wk[i].propQuery # None =>
                 FormatCursor(TheValue(wk[i].propQuery).afterCursor)
                     = TheValue(wk[i].req.onchain_cursor)

\* the organization lookup of worker w failed: its attempts were exhausted,
\* or its response is null, empty or lacks data.organizationSlugToId
OrgLookupFailed(w) ==
    \/ w.exhausted = "organization"
    \/ /\ w.orgResult # None
       /\ TheValue(w.orgResult).shape \in
              {"null", "empty", "no_data", "data_null", "data_empty"}

\* the (nodes, lastCursor) pairs the on-chain API issues
ProviderPages == {<<b.list, b.tok>> : b \in {c \in PropBodies : c.shape = "full"}}

\* C9: a request with an on-chain slug whose organization lookup fails is
\* answered with an error, not a 200, and with no on-chain data, and the
\* proposals query is not issued; every 200 response to a request with an
\* on-chain slug holds the onchain key, with a page and cursor that the
\* proposals query of this request returned or that the cache held.
C9_OrgFailureIsError ==
    \A i \in WorkerIds :
        /\ OrgLookupFailed(wk[i]) =>
              /\ wk[i].pc = "done"
              /\ wk[i].resp.status = 500
              /\ ~wk[i].resp.hasOnchain
              /\ wk[i].resp.onchain = <<>> /\ wk[i].resp.onchain_cursor = None
              /\ ~wk[i].propUpstream /\ wk[i].onSets = 0
        /\ (wk[i].resp.status = 200 /\ WantsOnchain(wk[i])) =>
              /\ wk[i].resp.hasOnchain
              /\ wk[i].onRet # None
              /\ TheValue(wk[i].onRet).items
                   = <<wk[i].resp.onchain, wk[i].resp.onchain_cursor>>
              /\ TheValue(wk[i].onRet).items \in ProviderPages
              /\ \/ wk[i].onFrom = "upstream" /\ wk[i].propUpstream /\ wk[i].onSets = 1
                 \/ wk[i].onFrom = "cache" /\ ~wk[i].orgUpstream /\ ~wk[i].propUpstream

\* the organization lookup answered without data after the off-chain fetch
\* of the request had returned a stored page
C9_Witness ==
    \E i \in WorkerIds :
        /\ wk[i].orgResult = Some(Body("no_data", <<>>, None))
        /\ wk[i].offSets = 1
        /\ wk[i].offRet # None
        /\ wk[i].resp.status = 500

\* the executor result the off-chain fetch of worker w tests holds no
\* proposals: it is None, or a body without data, with a null data, without
\* data.proposals, or with an empty list of proposals
NoProposalsIn(data) ==
    \/ data.shape \in {"null", "empty", "no_data", "data_null", "data_empty"}
    \/ data.shape = "full" /\ data.list = <<>>

\* C12: an off-chain fetch whose executor result is None, or a 200 body that
\* is null, lacks data, has a null data, lacks data.proposals or holds an
\* empty list, returns an empty page and no cursor, and raises nothing.
C12_MalformedIsEmptyPage ==
    [][\A i \in WorkerIds :
         (/\ wk[i].pc = "off_finish"
          /\ wk'[i] # wk[i]
          /\ NoProposalsIn(wk[i].ex.data)) =>
            /\ wk'[i].offRet = Some(PyTuple(<<>>, None))
            /\ wk'[i].resp.status # 500]_vars

\* the request of worker w names an on-chain organization: its onchain
\* argument is present and not the empty string
SlugSupplied(w) == w.req.onchain \notin {None, Some(<<>>)}

\* C13: every 200 response holds the page and the cursor the off-chain fetch
\* of the request returned; it holds the onchain page and onchain_cursor
\* exactly when the request named an on-chain organization, and these are the
\* page and the cursor the on-chain fetch of the request returned; without
\* one, no on-chain fetch was made.
C13_ResponseContents ==
    \A i \in WorkerIds :
        (wk[i].pc = "done" /\ wk[i].resp.status = 200) =>
            /\ wk[i].offRet # None
            /\ wk[i].resp.offchain = TheValue(wk[i].offRet).items[1]
            /\ wk[i].resp.offchain_cursor = TheValue(wk[i].offRet).items[2]
            /\ wk[i].resp.offchain \in OffchainPages
            /\ wk[i].resp.hasOnchain <=> SlugSupplied(wk[i])
            /\ wk[i].resp.hasOnchain =>
                  /\ wk[i].onRet # None
                  /\ wk[i].resp.onchain = TheValue(wk[i].onRet).items[1]
                  /\ wk[i].resp.onchain_cursor = TheValue(wk[i].onRet).items[2]
                  /\ <<wk[i].resp.onchain, wk[i].resp.onchain_cursor>> \in ProviderPages
            /\ ~wk[i].resp.hasOnchain =>
                  /\ wk[i].onRet = None
                  /\ wk[i].resp.onchain = <<>> /\ wk[i].resp.onchain_cursor = None
                  /\ ~wk[i].orgUpstream /\ ~wk[i].propUpstream /\ wk[i].onSets = 0

\* a 200 with a page of each source, each with its own cursor, to a request
\* that sent an on-chain cursor of its own
C13_Witness ==
    \E i \in WorkerIds :
        /\ wk[i].pc = "done"
        /\ wk[i].resp.status = 200
        /\ wk[i].req.onchain_cursor = Some(<<"5">>)
        /\ Len(wk[i].resp.offchain) = 2
        /\ wk[i].resp.offchain_cursor = Some(200)
        /\ wk[i].resp.hasOnchain
        /\ Len(wk[i].resp.onchain) = 1
        /\ wk[i].resp.onchain_cursor = Some(ProviderCursor)

\* the keys of the on-chain fetcher: they start with "onchain-"
IsOnchainKey(key) ==
    /\ Len(key) >= Len(OnchainPrefix \o Dash)
    /\ SubSeq(key, 1, Len(OnchainPrefix \o Dash)) = OnchainPrefix \o Dash

\* C14 as stated: the organization lookup is posted on every on-chain fetch
\* call, also on a call whose page then comes from the cache; a cache hit
\* skips the proposals query only.
C14_OrgResolvedOnEveryCall ==
    \A i \in WorkerIds :
        wk[i].onRet # None =>
            /\ wk[i].orgUpstream
            /\ wk[i].onFrom = "cache" => ~wk[i].propUpstream

\* what the step of the on-chain cache lookup of worker i does: with
\* refresh=false and an entry under the key it returns the entry and posts
\* neither query, else it goes on to the organization lookup
OnLookupStep(i) ==
    (wk[i].pc = "on_lookup" /\ wk'[i] # wk[i]) =>
        IF ~wk[i].refresh /\ OnKey(wk[i]) \in DOMAIN cache
        THEN /\ wk'[i].pc = "done"
             /\ wk'[i].onFrom = "cache"
             /\ wk'[i].onRet = Some(PyList(cache[OnKey(wk[i])].val[1],
                                            cache[OnKey(wk[i])].val[2]))
             /\ ~wk'[i].orgUpstream /\ ~wk'[i].propUpstream
        ELSE wk'[i].pc = "on_org_request"

\* C14 amended: the cache lookup comes before both queries.  An on-chain
\* fetch call with refresh=false and an entry under its key returns the entry
\* and posts neither the organization lookup nor the proposals query.  Every
\* other call (a miss, or refresh=true) posts the organization lookup anew,
\* and the proposals query only after the lookup returned an id; the result
\* of the lookup is never stored: the on-chain entries of the cache are
\* (page, lastCursor) pairs of the proposals query.
C14_OrgResolvedOnMissOnly ==
    /\ [][\A i \in WorkerIds : OnLookupStep(i)]_vars
    /\ [](\A i \in WorkerIds :
            /\ wk[i].onFrom = "cache" => (~wk[i].orgUpstream /\ ~wk[i].propUpstream)
            /\ (wk[i].pc \in {"on_prop_request", "on_finish"}
                    \/ wk[i].propUpstream \/ wk[i].onFrom = "upstream") =>
                  /\ wk[i].orgUpstream
                  /\ wk[i].orgResult # None
                  /\ TheValue(wk[i].orgResult).shape = "full")
    /\ [](\A key \in DOMAIN cache :
            /\ IsOnchainKey(key) \/ IsOffchainKey(key)
            /\ IsOnchainKey(key) => cache[key].val \in ProviderPages)

\* the second of two requests got its on-chain page from the cache and
\* posted no organization lookup, after the first had posted one
C14_Witness ==
    \E i \in WorkerIds :
        /\ served = 2
        /\ wk[i].pc = "done"
        /\ wk[i].resp.status = 200
        /\ wk[i].onFrom = "cache"
        /\ Len(wk[i].resp.onchain) = 1
        /\ ~wk[i].orgUpstream

\* the positions of a worker inside fetch_onchain_proposals
OnchainPcs == {"on_lookup", "on_org_request", "on_prop_request", "on_finish"}

\* the shapes of an executor result that is missing or malformed: None, and
\* the bodies that lack the member the fetcher reads
MissingShapes == {"null", "empty", "no_data", "data_null", "data_empty"}

\* the step in which the organization lookup of worker i returns a missing
\* or malformed response raises, posts no proposals query and leaves the
\* cache as it is
OrgFailureStep(i) ==
    (/\ wk[i].pc = "on_org_request"
     /\ wk'[i].orgResult # None
     /\ TheValue(wk'[i].orgResult).shape \in MissingShapes) =>
        /\ wk'[i].pc = "done"
        /\ wk'[i].resp.status = 500
        /\ wk'[i].resp.error \in {"OrganizationResolution", "TypeError"}
        /\ wk'[i].onRet = None
        /\ ~wk'[i].propUpstream
        /\ cache' = cache

\* the step in which worker i tests a missing or malformed response to the
\* proposals query raises and leaves the cache as it is
PageFailureStep(i) ==
    (/\ wk[i].pc = "on_finish"
     /\ wk'[i] # wk[i]
     /\ wk[i].ex.data.shape \in MissingShapes \cup {"member_null"}) =>
        /\ wk'[i].pc = "done"
        /\ wk'[i].resp.status = 500
        /\ wk'[i].resp.error \in {"ProposalFetch", "TypeError"}
        /\ wk'[i].onRet = None
        /\ cache' = cache

\* no step of an on-chain fetch call changes the cache but the one in which
\* the call returns the page it got from the upstream
OnchainFrameStep(i) ==
    (/\ wk[i].pc \in OnchainPcs
     /\ wk'[i] # wk[i]
     /\ wk'[i].onFrom # "upstream") => cache' = cache

\* C15: an on-chain fetch call whose organization lookup or whose proposals
\* query returns a missing or malformed response ends in a raised failure;
\* after a failed lookup the proposals query is not posted; and the call
\* leaves the cache as it was: it writes and overwrites no entry.
C15_OnchainFailureIsHard ==
    /\ [][\A i \in WorkerIds :
            OrgFailureStep(i) /\ PageFailureStep(i) /\ OnchainFrameStep(i)]_vars
    /\ [](\A i \in WorkerIds :
            (wk[i].resp.error \in {"OrganizationResolution", "ProposalFetch"}) =>
                /\ wk[i].pc = "done"
                /\ wk[i].resp.status = 500
                /\ wk[i].onRet = None /\ wk[i].onFrom = "" /\ wk[i].onSets = 0
                /\ ~wk[i].resp.hasOnchain
                /\ wk[i].resp.error = "OrganizationResolution" => ~wk[i].propUpstream)

\* the proposals query of a refresh=true request returned a body without
\* data, while the cache held the page an earlier request had stored under
\* the same key
C15_Witness ==
    \E i \in WorkerIds :
        /\ served = 2
        /\ wk[i].refresh
        /\ wk[i].resp.error = "ProposalFetch"
        /\ wk[i].propUpstream
        /\ OnKey(wk[i]) \in DOMAIN cache
        /\ Len(cache[OnKey(wk[i])].val[1]) = 1

\* the on-chain fetch of worker w has begun
OnchainBegun(w) ==
    \/ w.pc \in OnchainPcs
    \/ w.orgUpstream \/ w.propUpstream
    \/ w.onFrom # ""
    \/ w.exhausted \in {"organization", "proposals"}

\* the request of worker w failed in its on-chain fetch, after its off-chain
\* fetch had got a page of proposals from the upstream
FailedAfterOffchainPage(w) ==
    /\ w.pc = "done"
    /\ w.resp.status = 500
    /\ OnchainBegun(w)
    /\ w.offRet # None
    /\ w.offFrom = "upstream"
    /\ TheValue(w.offRet).items[1] # <<>>

\* C16: within a request the off-chain fetch has returned before the
\* on-chain fetch begins, and posts nothing after; and when the on-chain
\* fetch fails, the cache entry the off-chain fetch of the request wrote is,
\* unless it expired, still there and still holds the pair that fetch
\* returned, with its TTL.
C16_OffchainEntrySurvives ==
    \A i \in WorkerIds :
        /\ OnchainBegun(wk[i]) =>
              /\ wk[i].offRet # None
              /\ wk[i].offFrom \in {"cache", "upstream"}
              /\ wk[i].exhausted # "offchain"
        /\ wk[i].pc \in {"off_lookup", "off_request", "off_finish"} =>
              /\ ~wk[i].orgUpstream /\ ~wk[i].propUpstream
              /\ wk[i].onFrom = "" /\ wk[i].onSets = 0
        /\ (FailedAfterOffchainPage(wk[i]) /\ OffKey(wk[i]) \notin lapsed) =>
              /\ wk[i].offSets = 1
              /\ OffKey(wk[i]) \in DOMAIN cache
              /\ cache[OffKey(wk[i])] =
                    [val |-> TheValue(wk[i].offRet).items, ex |-> CacheTtl]

\* the organization lookup failed after the off-chain fetch of the request
\* had stored a page of two proposals, and the entry is in the cache
C16_Witness ==
    \E i \in WorkerIds :
        /\ FailedAfterOffchainPage(wk[i])
        /\ wk[i].resp.error = "OrganizationResolution"
        /\ Len(TheValue(wk[i].offRet).items[1]) = 2
        /\ OffKey(wk[i]) \in DOMAIN cache
        /\ cache[OffKey(wk[i])].val[2] = Some(200)

\* a key that enters the cache does so in the step in which a fetch call
\* returns what a 200 with the member it reads gave it
CreatedByFetch ==
    \A key \in (DOMAIN cache') \ DOMAIN cache :
        \E i \in WorkerIds :
            /\ wk[i].pc \in {"off_finish", "on_finish"}
            /\ wk[i].ex.out = "returned"
            /\ wk[i].ex.data.shape = "full"
            /\ wk[i].pc = "off_finish" =>
                  (key = OffKey(wk[i]) /\ wk'[i].offFrom = "upstream")
            /\ wk[i].pc = "on_finish" =>
                  (key = OnKey(wk[i]) /\ wk'[i].onFrom = "upstream")

\* a key leaves the cache by its expiry alone: no step of a worker removes one
RemovedByExpiry ==
    \A key \in (DOMAIN cache) \ DOMAIN cache' :
        /\ wk' = wk
        /\ cache' = [k \in DOMAIN cache \ {key} |-> cache[k]]

\* the step of the off-chain cache lookup of worker i: with refresh=false
\* and an entry under the key it returns the entry and posts nothing
OffLookupStep(i) ==
    (wk[i].pc = "off_lookup" /\ wk'[i] # wk[i]) =>
        IF ~wk[i].refresh /\ OffKey(wk[i]) \in DOMAIN cache
        THEN /\ wk'[i].offFrom = "cache"
             /\ wk'[i].offRet = Some(PyList(cache[OffKey(wk[i])].val[1],
                                             cache[OffKey(wk[i])].val[2]))
             /\ ~wk'[i].offUpstream
             /\ wk'[i].pc # "off_request"
        ELSE wk'[i].pc = "off_request"

\* C18: a cache entry is created only by a fetch that got its page from the
\* upstream; every entry is written with a TTL of 36000 seconds; no step of
\* the program removes an entry, expiry alone does; and as long as the entry
\* is there, every fetch with its key and refresh=false returns it and posts
\* nothing.
C18_EntryLifecycle ==
    /\ [][CreatedByFetch /\ RemovedByExpiry]_vars
    /\ [][\A key \in DOMAIN cache' :
            (key \notin DOMAIN cache \/ cache'[key] # cache[key]) =>
                cache'[key].ex = 36000]_vars
    /\ [](\A key \in DOMAIN cache : cache[key].ex = 36000)
    /\ [][\A i \in WorkerIds : OffLookupStep(i) /\ OnLookupStep(i)]_vars

\* the second request got both its pages from the entries the first had
\* created, and posted nothing
C18_Witness ==
    \E i \in WorkerIds :
        /\ served = 2
        /\ wk[i].pc = "done"
        /\ wk[i].offFrom = "cache" /\ wk[i].onFrom = "cache"
        /\ ~wk[i].offUpstream /\ ~wk[i].orgUpstream /\ ~wk[i].propUpstream
        /\ wk[i].gets = 2
        /\ cache[OffKey(wk[i])].ex = 36000
        /\ cache[OnKey(wk[i])].ex = 36000

\* no step of the executor of an off-chain fetch changes the cache, and the
\* step in which the fetch tests a result that is None or lacks
\* data.proposals leaves the cache as it is, whatever refresh is
FailedFetchFrame(i) ==
    /\ (wk[i].pc = "off_request" /\ wk'[i] # wk[i]) => cache' = cache
    /\ (/\ wk[i].pc = "off_finish"
        /\ wk'[i] # wk[i]
        /\ wk[i].ex.data.shape \in MissingShapes) =>
            /\ cache' = cache
            /\ wk'[i].offSets = 0
            /\ wk'[i].offRet \in {None, Some(PyTuple(<<>>, None))}

\* two completed off-chain fetch calls with the same key, one right after
\* the other, the first of which stored nothing and the second of which has
\* refresh=false
AfterFailedFetch ==
    /\ Len(offHist) = 2
    /\ offHist[1].space = offHist[2].space
    /\ offHist[1].cursor = offHist[2].cursor
    /\ offHist[1].upstream
    /\ ~offHist[1].stored
    /\ ~offHist[2].refresh

\* C19: an off-chain fetch whose executor result is None or lacks
\* data.proposals changes no cache entry, under refresh=true as well: the
\* entry under its key, if any, stays as it was and no empty page is stored;
\* the next call with the key and refresh=false posts to the upstream again
\* or returns the entry that was there before.
C19_FailedFetchNotCached ==
    /\ [][\A i \in WorkerIds : FailedFetchFrame(i)]_vars
    /\ [](AfterFailedFetch =>
            \/ offHist[2].upstream
            \/ /\ offHist[2].out = "returned"
               /\ offHist[2].stored
               /\ offHist[1].refresh)

\* a refresh=true fetch that got no body from the upstream returned an empty
\* page, and the entry of two proposals under its key is still in the cache
C19_Witness ==
    \E i \in WorkerIds :
        /\ served = 2
        /\ wk[i].refresh
        /\ wk[i].offFrom = "upstream"
        /\ wk[i].offSets = 0
        /\ wk[i].offRet = Some(PyTuple(<<>>, None))
        /\ OffKey(wk[i]) \in DOMAIN cache
        /\ Len(cache[OffKey(wk[i])].val[1]) = 2

---------------------------------------------------------------------------
(* Properties of the executor on its own.                                  *)

\* C4: the n-th response of a run of 429 and 503 is slept on with the delay
\* initial_delay * 2^(n-1), and the sleep lies between that delay and one and
\* a half times it; the executor posts at most retries times; it raises
\* exactly when every one of its retries posts was answered 429 or 503, and
\* otherwise returns the body of a 200 or None.
C4_BackoffAndBudget ==
    /\ Len(xlog) = xe.attempt
    /\ xe.attempt <= xe.retries
    /\ \A n \in 1..Len(xlog) :
         xlog[n].slept =>
            /\ xlog[n].delay = xe.initial_delay * 2^(n - 1)
            /\ 2 * xlog[n].delay <= xlog[n].sleep2
            /\ xlog[n].sleep2 <= 3 * xlog[n].delay
    /\ xe.out \in {"running", "returned", "raised"}
    /\ xe.out = "running" => xe.attempt < xe.retries
    /\ xe.out = "raised" <=>
         (xe.attempt = xe.retries /\ \A n \in 1..Len(xlog) : xlog[n].slept)
    /\ xe.out = "returned" =>
         /\ Len(xlog) >= 1
         /\ \A n \in 1..(Len(xlog) - 1) : xlog[n].slept
         /\ xe.data = IF xlog[Len(xlog)].status = 200
                      THEN xlog[Len(xlog)].body ELSE NullData

\* five responses 429 or 503 to a call with the default arguments: the fifth
\* slept on 48 seconds for the longest time, the first on 3 for the shortest
C4_Witness ==
    /\ xe.retries = 5 /\ xe.initial_delay = 3
    /\ xe.out = "raised"
    /\ Len(xlog) = 5
    /\ xlog[5].delay = 48 /\ xlog[5].sleep2 = 144
    /\ xlog[1].delay = 3 /\ xlog[1].sleep2 = 6

\* C5: a response that is a transport failure or a status other than 200,
\* 429 and 503 is the last of the call: the executor returns None at once,
\* without a sleep and without another post, however many attempts remain;
\* a 200 is the last too, and the executor returns its body.
C5_FailureEndsAtOnce ==
    \A n \in 1..Len(xlog) :
        /\ (xlog[n].kind = "exception" \/ xlog[n].status \notin {200, 429, 503}) =>
              /\ n = Len(xlog)
              /\ xe.out = "returned"
              /\ xe.data = NullData
              /\ ~xlog[n].slept /\ xlog[n].sleep2 = 0
              /\ ~CanPost(xe)
        /\ (xlog[n].kind = "http" /\ xlog[n].status = 200) =>
              /\ n = Len(xlog)
              /\ xe.out = "returned"
              /\ xe.data = xlog[n].body
              /\ ~CanPost(xe)

\* a 404 to the second of five attempts, after a 429
C5_Witness ==
    /\ xe.retries = 5
    /\ Len(xlog) = 2
    /\ xlog[1].status = 429
    /\ xlog[2].status = 404
    /\ xe.attempt = 2
    /\ xe.out = "returned"

---------------------------------------------------------------------------
(* Properties of the cache keys.                                           *)

\* C10: two fetches have the same cache key exactly when they have the same
\* source, space or slug, direction and cursor.
C10_KeysInjective ==
    kout # <<>> => ((kin[1] = kin[2]) <=> (kout[1] = kout[2]))

---------------------------------------------------------------------------
(* Properties of a traversal.                                              *)

\* the pages of the trail hold no proposal twice
NoProposalTwice ==
    \A m, n \in 1..Len(trail) :
        \A a \in 1..Len(trail[m].page), b \in 1..Len(trail[n].page) :
            trail[m].page[a] = trail[n].page[b] => (m = n /\ a = b)

\* the traversal ended on an empty page without a cursor
TraversalEnded ==
    /\ trail # <<>>
    /\ trail[Len(trail)].status = 200
    /\ trail[Len(trail)].page = <<>>
    /\ trail[Len(trail)].cursor = None
    /\ \A i \in WorkerIds : wk[i].pc = "ended"

\* C11: a client that feeds each offchain_cursor back, against an API that
\* returns the proposals of the space created after the cursor in the order
\* asked for, gets on each call the next page, with no proposal that an
\* earlier page held, and in the end an empty page without a cursor.
C11_TraversalProgresses == []NoProposalTwice /\ <>TraversalEnded

\* every traversal does end on an empty page without a cursor
TraversalEnds == <>TraversalEnded

---------------------------------------------------------------------------
(* Properties of concurrent requests.                                      *)

\* the step of worker i is the return of its off-chain fetch, which puts
\* under its key the pair it returns: the page of its own upstream response
\* with that page's cursor; every other entry stays
OffchainPairWritten(i) ==
    /\ wk[i].pc = "off_finish"
    /\ wk[i].ex.data.shape = "full"
    /\ wk'[i].offRet # None
    /\ TheValue(wk'[i].offRet).items[1] = wk[i].ex.data.list
    /\ CursorMatchesPage(TheValue(wk'[i].offRet).items)
    /\ DOMAIN cache' = DOMAIN cache \cup {OffKey(wk[i])}
    /\ cache'[OffKey(wk[i])] =
          [val |-> TheValue(wk'[i].offRet).items, ex |-> CacheTtl]
    /\ \A k \in DOMAIN cache \ {OffKey(wk[i])} : cache'[k] = cache[k]

\* the same of its on-chain fetch: the nodes and the lastCursor of its own
\* upstream response
OnchainPairWritten(i) ==
    /\ wk[i].pc = "on_finish"
    /\ wk[i].ex.data.shape = "full"
    /\ wk'[i].onRet # None
    /\ TheValue(wk'[i].onRet).items = <<wk[i].ex.data.list, wk[i].ex.data.tok>>
    /\ DOMAIN cache' = DOMAIN cache \cup {OnKey(wk[i])}
    /\ cache'[OnKey(wk[i])] =
          [val |-> TheValue(wk'[i].onRet).items, ex |-> CacheTtl]
    /\ \A k \in DOMAIN cache \ {OnKey(wk[i])} : cache'[k] = cache[k]

\* a step that changes the cache either drops one entry (its expiry) or is
\* the write of one whole pair by one worker
WholePairWritten ==
    cache' # cache =>
        \/ \E key \in DOMAIN cache :
              cache' = [k \in DOMAIN cache \ {key} |-> cache[k]]
        \/ \E i \in ConcWorkers : OffchainPairWritten(i) \/ OnchainPairWritten(i)

\* a worker that returns at a cache lookup returns the entry under its key
WholePairRead ==
    \A i \in ConcWorkers :
        /\ (wk[i].pc = "off_lookup" /\ wk'[i].offRet # None) =>
              /\ OffKey(wk[i]) \in DOMAIN cache
              /\ TheValue(wk'[i].offRet).items = cache[OffKey(wk[i])].val
        /\ (wk[i].pc = "on_lookup" /\ wk'[i].onRet # None) =>
              /\ OnKey(wk[i]) \in DOMAIN cache
              /\ TheValue(wk'[i].onRet).items = cache[OnKey(wk[i])].val

\* C17: however the steps of concurrent requests on one cache key
\* interleave, the entry under the key is a whole (page, nextCursor) pair
\* that one request wrote from its own upstream response, the latest write
\* standing; no entry and no returned pair joins the page of one response to
\* the cursor of another.
C17_WholePairs ==
    /\ [][WholePairWritten /\ WholePairRead]_vars
    /\ [](\A key \in DOMAIN cache :
            IF IsOffchainKey(key)
            THEN /\ cache[key].val[1] \in OffchainPages
                 /\ CursorMatchesPage(cache[key].val)
            ELSE cache[key].val \in ProviderPages)
    /\ [](\A i \in ConcWorkers :
            /\ wk[i].offRet # None =>
                  /\ TheValue(wk[i].offRet).items[1] \in OffchainPages
                  /\ CursorMatchesPage(TheValue(wk[i].offRet).items)
            /\ wk[i].onRet # None => TheValue(wk[i].onRet).items \in ProviderPages)

\* both requests missed the same key, neither after an expiry, each got a
\* page of its own from the upstream and stored it; the cache holds the pair
\* of worker 2, a pair that differs from the one worker 1 returned
C17_Witness ==
    /\ \A i \in ConcWorkers :
          /\ wk[i].pc = "done"
          /\ ~wk[i].refresh /\ ~wk[i].keyLapsed
          /\ wk[i].offFrom = "upstream"
          /\ wk[i].offSets = 1
    /\ OffKey(wk[1]) = OffKey(wk[2])
    /\ Len(TheValue(wk[1].offRet).items[1]) = 2
    /\ Len(TheValue(wk[2].offRet).items[1]) = 1
    /\ OffKey(wk[2]) \in DOMAIN cache
    /\ cache[OffKey(wk[2])].val = TheValue(wk[2].offRet).items

====
